---- MODULE Spec2Model ----
(***************************************************************************)
(* A model of src/model/train_profile_model.py: the training driver        *)
(* train_model (epoch loop, checkpointing, NaN exit, early stopping, final *)
(* metrics), the model factory create_model, the epoch runner run_epoch    *)
(* and the loss model_loss.                                                *)
(*                                                                         *)
(* Losses are floats in the program.  Here a loss is a record              *)
(* [nan, v]: either NaN or the integer v (a loss in units of the smallest  *)
(* difference the model distinguishes).  Arithmetic and comparisons on     *)
(* them follow IEEE/NumPy: an operation with a NaN operand is NaN, and a   *)
(* comparison with NaN is false.                                           *)
(***************************************************************************)
EXTENDS Integers, Sequences, FiniteSets, TLC

\* ------------------------------------------------------------------ bounds
MaxEpochs == 3
MaxHistLen == 3
MaxLoss == 2
MaxDelta == 2
MaxWeight == 1
MaxEpochNum == 1
MaxCorrLoss == 2
MaxAttLoss == 1
MaxBatches == 2
MaxBatchSize == 2

\* ------------------------------------------------------------ float values
NaN == [nan |-> TRUE, v |-> 0]
Num(n) == [nan |-> FALSE, v |-> n]
IsNaN(x) == x.nan
LossValues == {NaN} \cup {Num(n) : n \in 0..MaxLoss}

\* a - b on floats
FSub(a, b) == IF a.nan \/ b.nan THEN NaN ELSE Num(a.v - b.v)
\* a < b on floats: false when either is NaN
FLess(a, b) == ~a.nan /\ ~b.nan /\ a.v < b.v

\* np.diff(a): a[i+1] - a[i] for each adjacent pair
NpDiff(a) == [i \in 1..(Len(a) - 1) |-> FSub(a[i + 1], a[i])]

\* np.max(a) of a non-empty array: NaN if any element is NaN
NpMax(a) ==
    IF \E i \in 1..Len(a) : a[i].nan THEN NaN
    ELSE Num(CHOOSE m \in {a[i].v : i \in 1..Len(a)} :
                 \A i \in 1..Len(a) : a[i].v <= m)

Min(a, b) == IF a < b THEN a ELSE b

\* a[:-1]
DropLast(a) == IF Len(a) = 0 THEN <<>> ELSE SubSeq(a, 1, Len(a) - 1)

\* --------------------------------------------------------------- variables
VARIABLES
    cfg,                  \* the sacred configuration captured by train_model
    pc,                   \* position of train_model
    predictor_class,      \* create_model's local
    model,                \* the model train_model holds
    epoch,                \* loop variable of `for epoch in range(num_epochs)`
    train_epoch_loss,
    val_epoch_loss,
    val_epoch_loss_hist,
    val_log,              \* _run.log_scalar("val_epoch_loss", ...) so far
    saved,                \* epoch numbers util.save_model was called with
    metrics_runs,         \* executions of the final metrics block
    exit_via,             \* how the epoch loop ended
    error,                \* the exception that ended the run, if any
    larg,                 \* the arguments and captured config of a model_loss call
    lret,                 \* what that call returned
    rcall,                \* the arguments and captured config of a run_epoch call
    rpc,                  \* position of run_epoch
    batch_sizes,          \* num_in_batch of each batch iterated (0 where not read)
    ops,                  \* the calls of the latest batch, in order
    input_grads_np,       \* run_epoch's local of that name
    batch_losses,
    corr_losses,
    att_losses,
    num_samples_seen,
    all_outputs,          \* all_log_pred_profs, ..., all_input_seqs, all_coords
    all_input_grads,
    rret,                 \* what run_epoch returned
    rerror                \* the exception that ended run_epoch, if any

\* train_model's state
dvars == <<cfg, pc, predictor_class, model, epoch, train_epoch_loss,
           val_epoch_loss, val_epoch_loss_hist, val_log, saved, metrics_runs,
           exit_via, error>>
\* a model_loss call
lvars == <<larg, lret>>

\* a run_epoch call
evars == <<rcall, rpc, batch_sizes, ops, input_grads_np, batch_losses,
           corr_losses, att_losses, num_samples_seen, all_outputs,
           all_input_grads, rret, rerror>>

vars == <<dvars, lvars, evars>>

NotCalled == [called |-> FALSE]
\* The variables of a function that is not running.
LossIdle == larg = NotCalled /\ lret = NotCalled
EpochIdle ==
    /\ rcall = NotCalled
    /\ rpc = "IDLE"
    /\ batch_sizes = <<>>
    /\ ops = <<>>
    /\ input_grads_np = "unbound"
    /\ batch_losses = <<>>
    /\ corr_losses = <<>>
    /\ att_losses = <<>>
    /\ num_samples_seen = 0
    /\ all_outputs = <<>>
    /\ all_input_grads = <<>>
    /\ rret = NotCalled
    /\ rerror = "none"
DriverIdle ==
    /\ cfg = NotCalled
    /\ pc = "IDLE"
    /\ predictor_class = "unbound"
    /\ model = "none"
    /\ epoch = -1
    /\ train_epoch_loss = [nan |-> FALSE, v |-> 0]
    /\ val_epoch_loss = [nan |-> FALSE, v |-> 0]
    /\ val_epoch_loss_hist = <<>>
    /\ val_log = <<>>
    /\ saved = <<>>
    /\ metrics_runs = 0
    /\ exit_via = "none"
    /\ error = "none"

\* ----------------------------------------------------------- create_model
ControlsValues == {"None", "matched", "shared", "other"}
Unbound == "unbound"

\* A chain closed by an else that defaults to the shared-controls variant.
SelectPredictorClassElse(controls) ==
    IF controls = "matched" THEN "ProfilePredictorWithMatchedControls"
    ELSE "ProfilePredictorWithSharedControls"

\* The if / if-elif chain that binds predictor_class.
SelectPredictorClass(controls) ==
    LET first == IF controls = "None"
                 THEN "ProfilePredictorWithoutControls" ELSE Unbound
    IN  IF controls = "matched" THEN "ProfilePredictorWithMatchedControls"
        ELSE IF controls = "shared" THEN "ProfilePredictorWithSharedControls"
        ELSE first

\* ------------------------------------------------------------- train_model
Configs ==
    [num_epochs : 0..MaxEpochs,
     early_stopping : BOOLEAN,
     early_stop_hist_len : 1..MaxHistLen,
     early_stop_min_delta : 1..MaxDelta,
     controls : ControlsValues]

Init ==
    /\ cfg \in Configs
    /\ pc = "RUNNING"
    /\ predictor_class = Unbound
    /\ model = "none"
    /\ epoch = -1
    /\ train_epoch_loss = Num(0)
    /\ val_epoch_loss = Num(0)
    /\ val_epoch_loss_hist = <<>>
    /\ val_log = <<>>
    /\ saved = <<>>
    /\ metrics_runs = 0
    /\ exit_via = "none"
    /\ error = "none"
    /\ LossIdle
    /\ EpochIdle

\* model = create_model(); a use of the unbound local raises.
CreateModel ==
    /\ pc = "RUNNING"
    /\ predictor_class' = SelectPredictorClass(cfg.controls)
    /\ IF predictor_class' = Unbound
       THEN /\ pc' = "RAISED"
            /\ error' = "UnboundLocalError"
            /\ model' = model
       ELSE /\ pc' = "LOOP"
            /\ error' = error
            /\ model' = predictor_class'
    /\ UNCHANGED <<lvars, evars, cfg, epoch, train_epoch_loss, val_epoch_loss,
                   val_epoch_loss_hist, val_log, saved, metrics_runs, exit_via>>

\* for epoch in range(num_epochs)
LoopHead ==
    /\ pc = "LOOP"
    /\ IF epoch + 1 < cfg.num_epochs
       THEN /\ epoch' = epoch + 1
            /\ pc' = "TRAIN_STEP"
            /\ exit_via' = exit_via
       ELSE /\ epoch' = epoch
            /\ pc' = "FINAL_METRICS"
            /\ exit_via' = "exhausted"
    /\ UNCHANGED <<lvars, evars, cfg, predictor_class, model, train_epoch_loss,
                   val_epoch_loss, val_epoch_loss_hist, val_log, saved,
                   metrics_runs, error>>

\* run_epoch(train_loader, "train", ...); train_epoch_loss = np.nanmean(...)
TrainStep ==
    /\ pc = "TRAIN_STEP"
    /\ \E l \in LossValues : train_epoch_loss' = l
    /\ pc' = "EVAL_STEP"
    /\ UNCHANGED <<lvars, evars, cfg, predictor_class, model, epoch, val_epoch_loss,
                   val_epoch_loss_hist, val_log, saved, metrics_runs,
                   exit_via, error>>

\* run_epoch(val_loader, "eval", ...); val_epoch_loss = np.nanmean(...)
EvalStep ==
    /\ pc = "EVAL_STEP"
    /\ \E l \in LossValues :
          /\ val_epoch_loss' = l
          /\ val_log' = Append(val_log, l)
    /\ pc' = "CHECKPOINT"
    /\ UNCHANGED <<lvars, evars, cfg, predictor_class, model, epoch, train_epoch_loss,
                   val_epoch_loss_hist, saved, metrics_runs, exit_via, error>>

\* A path keyed by the 0-based loop variable.
SavePathZeroBased(e) == e

\* "model_ckpt_epoch_%d.pt" % (epoch + 1)
SavePath(e) == e + 1

Checkpoint ==
    /\ pc = "CHECKPOINT"
    /\ saved' = Append(saved, SavePath(epoch))
    /\ pc' = "NAN_CHECK"
    /\ UNCHANGED <<lvars, evars, cfg, predictor_class, model, epoch, train_epoch_loss,
                   val_epoch_loss, val_epoch_loss_hist, val_log,
                   metrics_runs, exit_via, error>>

\* `or` in place of `and`.
EitherNaN(t, v) == IsNaN(t) \/ IsNaN(v)

\* np.isnan(train_epoch_loss) and np.isnan(val_epoch_loss)
BothNaN(t, v) == IsNaN(t) /\ IsNaN(v)

NanCheck ==
    /\ pc = "NAN_CHECK"
    /\ IF BothNaN(train_epoch_loss, val_epoch_loss)
       THEN /\ pc' = "FINAL_METRICS"
            /\ exit_via' = "nan"
       ELSE /\ pc' = "EARLY_STOP_CHECK"
            /\ exit_via' = exit_via
    /\ UNCHANGED <<lvars, evars, cfg, predictor_class, model, epoch, train_epoch_loss,
                   val_epoch_loss, val_epoch_loss_hist, val_log, saved,
                   metrics_runs, error>>

\* The new history: the loss tacked on in front, the oldest kicked off once
\* len(hist) has reached early_stop_hist_len - 1.
PushHist(hist, loss, hist_len) ==
    IF Len(hist) < hist_len - 1
    THEN <<loss>> \o hist
    ELSE <<loss>> \o DropLast(hist)

\* Whether the branch that takes np.max(np.diff(...)) is entered.
HistFull(hist, hist_len) == ~(Len(hist) < hist_len - 1)

EarlyStopCheck ==
    /\ pc = "EARLY_STOP_CHECK"
    /\ IF ~cfg.early_stopping
       THEN /\ pc' = "LOOP"
            /\ UNCHANGED <<val_epoch_loss_hist, exit_via, error>>
       ELSE LET new == PushHist(val_epoch_loss_hist, val_epoch_loss,
                                cfg.early_stop_hist_len)
            IN  /\ val_epoch_loss_hist' = new
                /\ IF ~HistFull(val_epoch_loss_hist, cfg.early_stop_hist_len)
                   THEN /\ pc' = "LOOP"
                        /\ UNCHANGED <<exit_via, error>>
                   ELSE IF Len(NpDiff(new)) = 0
                   THEN \* np.max of a zero-size array
                        /\ pc' = "RAISED"
                        /\ error' = "ValueError"
                        /\ exit_via' = exit_via
                   ELSE IF FLess(NpMax(NpDiff(new)),
                                 Num(cfg.early_stop_min_delta))
                   THEN /\ pc' = "FINAL_METRICS"
                        /\ exit_via' = "early_stop"
                        /\ error' = error
                   ELSE /\ pc' = "LOOP"
                        /\ UNCHANGED <<exit_via, error>>
    /\ UNCHANGED <<lvars, evars, cfg, predictor_class, model, epoch, train_epoch_loss,
                   val_epoch_loss, val_log, saved, metrics_runs>>

\* The block after the loop: test metrics are computed and logged.
FinalMetrics ==
    /\ pc = "FINAL_METRICS"
    /\ metrics_runs' = metrics_runs + 1
    /\ pc' = "DONE"
    /\ UNCHANGED <<lvars, evars, cfg, predictor_class, model, epoch, train_epoch_loss,
                   val_epoch_loss, val_epoch_loss_hist, val_log, saved,
                   exit_via, error>>

TrainModel ==
    \/ CreateModel
    \/ LoopHead
    \/ TrainStep
    \/ EvalStep
    \/ Checkpoint
    \/ NanCheck
    \/ EarlyStopCheck
    \/ FinalMetrics

Next == TrainModel

Spec == Init /\ [][Next]_vars

\* -------------------------------------------------------------- model_loss
\* Loss values of model_loss are fixed-point numbers: the integer x stands
\* for x / Scale.  The attribution-prior weight is an integer number of
\* weight steps (a step may be a fraction such as 0.5); model_loss and
\* run_epoch read only its sign, its being zero, and its products.
Scale == 1000
\* e^(-0.1) in fixed point
ExpNegTenth == 905
\* att_prior_loss_weight_anneal_speed, in tenths, as config sets it
InflateSpeedTenths == 10
DeflateSpeedTenths == 3

AnnealTypes == {"None", "inflate", "deflate"}

AnnealSpeedTenths(type) ==
    IF type = "inflate" THEN InflateSpeedTenths
    ELSE IF type = "deflate" THEN DeflateSpeedTenths
    ELSE 0

\* np.exp(-x / 10) in fixed point, for x >= 0
RECURSIVE NpExpNeg(_)
NpExpNeg(x) ==
    IF x = 0 THEN Scale ELSE (NpExpNeg(x - 1) * ExpNegTenth) \div Scale

\* An inflate branch without the "- 1".
AnnealWeightNoMinusOne(c, epoch_num) ==
    LET exp == NpExpNeg(AnnealSpeedTenths(c.anneal_type) * epoch_num)
    IN  IF c.anneal_type = "None" THEN c.att_prior_loss_weight * Scale
        ELSE IF c.anneal_type = "inflate"
        THEN c.att_prior_loss_weight * ((2 * Scale * Scale) \div (Scale + exp))
        ELSE c.att_prior_loss_weight * exp

\* `weight`, in fixed point
AnnealWeight(c, epoch_num) ==
    LET exp == NpExpNeg(AnnealSpeedTenths(c.anneal_type) * epoch_num)
    IN  IF c.anneal_type = "None" THEN c.att_prior_loss_weight * Scale
        ELSE IF c.anneal_type = "inflate"
        THEN c.att_prior_loss_weight
                * (((2 * Scale * Scale) \div (Scale + exp)) - Scale)
        ELSE c.att_prior_loss_weight * exp

\* A test for None in place of the truth test.
WeightIsNone(w) == FALSE

\* not att_prior_loss_weight
WeightIsFalsy(w) == w = 0

\* model.fourier_att_prior_loss(status, input_grads, ...): the loss `att`
\* of the gradients it is given; it operates on both tensors, so None for
\* either raises.
FourierAttPriorLoss(status, input_grads, att) ==
    IF status = "None" \/ input_grads = "None"
    THEN [raised |-> TRUE]
    ELSE [raised |-> FALSE, loss |-> att * Scale]

\* model_loss: corr is what model.correctness_loss returns, att what the
\* attribution prior loss of input_grads is.  Returns final_loss,
\* (corr_loss, att_prior_loss), or raises.
ModelLoss(c, epoch_num, corr, att, input_grads, status) ==
    LET corr_loss == corr * Scale
    IN  IF WeightIsFalsy(c.att_prior_loss_weight)
        THEN [raised |-> FALSE, final_loss |-> corr_loss,
              corr_loss |-> corr_loss, att_loss |-> 0,
              prior_evaluated |-> FALSE, weight |-> "unbound"]
        ELSE LET prior == FourierAttPriorLoss(status, input_grads, att)
                 weight == AnnealWeight(c, epoch_num)
             IN  IF prior.raised
                 THEN [raised |-> TRUE, prior_evaluated |-> TRUE]
                 ELSE [raised |-> FALSE,
                       final_loss |->
                          IF c.att_prior_loss_only THEN prior.loss
                          ELSE corr_loss + ((weight * prior.loss) \div Scale),
                       corr_loss |-> corr_loss, att_loss |-> prior.loss,
                       prior_evaluated |-> TRUE, weight |-> weight]

LossConfigs ==
    [att_prior_loss_weight : (-1)..MaxWeight,
     anneal_type : AnnealTypes,
     att_prior_loss_only : BOOLEAN]

LossArgs ==
    [called : {TRUE},
     c : LossConfigs,
     epoch_num : 0..MaxEpochNum,
     corr : 0..MaxCorrLoss,
     att : 0..MaxAttLoss,
     input_grads : {"None", "tensor"},
     status : {"None", "tensor"}]

LossInit ==
    /\ larg \in LossArgs
    /\ lret = NotCalled
    /\ DriverIdle
    /\ EpochIdle

CallModelLoss ==
    /\ larg # NotCalled
    /\ lret = NotCalled
    /\ lret' = [called |-> TRUE,
                r |-> ModelLoss(larg.c, larg.epoch_num, larg.corr, larg.att,
                                larg.input_grads, larg.status)]
    /\ UNCHANGED <<dvars, evars, larg>>

LossNext == CallModelLoss

SpecLoss == LossInit /\ [][LossNext]_vars

\* --------------------------------------------------------------- run_epoch
EpochCalls ==
    [called : {TRUE},
     c : LossConfigs,
     batch_size : 1..MaxBatchSize,
     revcomp : BOOLEAN,
     mode : {"train", "eval"},
     optimizer : {"None", "Adam"},
     epoch_num : 0..MaxEpochNum,
     return_data : BOOLEAN,
     num_batches : 0..MaxBatches]

EpochInit ==
    /\ rcall \in EpochCalls
    /\ rpc = "START"
    /\ batch_sizes = <<>>
    /\ ops = <<>>
    /\ input_grads_np = "unbound"
    /\ batch_losses = <<>>
    /\ corr_losses = <<>>
    /\ att_losses = <<>>
    /\ num_samples_seen = 0
    /\ all_outputs = <<>>
    /\ all_input_grads = <<>>
    /\ rret = NotCalled
    /\ rerror = "none"
    /\ DriverIdle
    /\ LossIdle

\* num_samples_exp
NumSamplesExp(num_batches, batch_size, revcomp) ==
    (num_batches * batch_size) * (IF revcomp THEN 2 ELSE 1)

\* A row no batch has been written to.
Garbage == [batch |-> 0]

\* np.empty((n, ...))
NpEmpty(n) == [i \in 1..n |-> Garbage]

\* The asserts on mode and optimizer, and the allocation of the arrays.
RunEpochStart ==
    /\ rpc = "START"
    /\ IF (rcall.mode = "train") # (rcall.optimizer # "None")
       THEN /\ rpc' = "RAISED"
            /\ rerror' = "AssertionError"
            /\ UNCHANGED <<all_outputs, all_input_grads>>
       ELSE /\ rpc' = "BATCHES"
            /\ rerror' = rerror
            /\ IF rcall.return_data
               THEN LET n == NumSamplesExp(rcall.num_batches, rcall.batch_size,
                                           rcall.revcomp)
                    IN  /\ all_outputs' = NpEmpty(n)
                        /\ all_input_grads' = NpEmpty(n)
               ELSE UNCHANGED <<all_outputs, all_input_grads>>
    /\ UNCHANGED <<dvars, lvars, rcall, batch_sizes, ops, input_grads_np, batch_losses,
                   corr_losses, att_losses, num_samples_seen, rret>>

\* a[start:end] = rows, for rows with n rows tagged `tag`; positions count
\* from 0 as in the program.  NumPy clips the slice to the array and raises
\* unless the rows broadcast to it (as many rows as the slice, or one row).
SliceFits(a, start, end, n) ==
    LET s == Min(end, Len(a)) - Min(start, Len(a))
    IN  s = n \/ n = 1

SliceAssign(a, start, end, tag) ==
    [i \in 1..Len(a) |-> IF start < i /\ i <= end THEN tag ELSE a[i]]

\* The examples a batch may hold: up to batch_size coordinates (one more
\* when the loader overfills), each doubled under revcomp.
BatchSizes(batch_size, revcomp) ==
    {k * (IF revcomp THEN 2 ELSE 1) : k \in 1..(batch_size + 1)}

\* model.correctness_loss of the k-th batch.  It is a function of the batch
\* and the model alone, and run_epoch and model_loss only copy it and add
\* to it: batch k's is k units, so that the batches' losses differ.
CorrLossOfBatch(k) == k

\* att_prior_loss_weight > 0: the guard of the input-gradient computation
\* (and of model.zero_grad outside training).
ComputesInputGrads(w) == w > 0

\* `if att_prior_loss_weight:`, the guard of all_input_grads[start:end] = ...
StoresInputGrads(w) == w # 0

\* The batch's calls with loss.backward and optimizer.step moved in front of
\* the forward pass.
BatchOpsStepFirst(mode, w, prior_evaluated, completed) ==
    (IF mode = "train" THEN <<"optimizer.zero_grad">>
     ELSE IF ComputesInputGrads(w) THEN <<"model.zero_grad">> ELSE <<>>)
    \o (IF mode = "train" /\ completed
        THEN <<"loss.backward", "optimizer.step">> ELSE <<>>)
    \o (IF ComputesInputGrads(w) THEN <<"forward", "autograd.grad">>
        ELSE <<"forward">>)
    \o <<"model_loss">>
    \o (IF prior_evaluated THEN <<"fourier_att_prior_loss">> ELSE <<>>)

\* The calls one batch makes, in program order: the zero_grad, the forward
\* pass (with torch.autograd.grad for the input gradients), model_loss (with
\* the attribution prior loss where it evaluates it) and, when model_loss
\* returned, the parameter step of training.
BatchOps(mode, w, prior_evaluated, completed) ==
    (IF mode = "train" THEN <<"optimizer.zero_grad">>
     ELSE IF ComputesInputGrads(w) THEN <<"model.zero_grad">> ELSE <<>>)
    \o (IF ComputesInputGrads(w) THEN <<"forward", "autograd.grad">>
        ELSE <<"forward">>)
    \o <<"model_loss">>
    \o (IF prior_evaluated THEN <<"fourier_att_prior_loss">> ELSE <<>>)
    \o (IF mode = "train" /\ completed
        THEN <<"loss.backward", "optimizer.step">> ELSE <<>>)

\* The body of `for input_seqs, profiles, statuses, coords, peaks in t_iter`
\* for a batch of n examples whose correctness loss is corr and whose
\* attribution prior loss is att.
Batch(n, corr, att) ==
    LET w == rcall.c.att_prior_loss_weight
        input_grads == IF ComputesInputGrads(w) THEN "tensor" ELSE "None"
        status == IF ComputesInputGrads(w) THEN "tensor" ELSE "None"
        grads_np == IF ComputesInputGrads(w) /\ rcall.return_data
                    THEN "array" ELSE input_grads_np
        loss == ModelLoss(rcall.c, rcall.epoch_num, corr, att, input_grads, status)
        start == num_samples_seen
        end == num_samples_seen + n
        tag == [batch |-> Len(batch_sizes) + 1]
    IN  /\ batch_sizes' = Append(batch_sizes, n)
        /\ input_grads_np' = grads_np
        /\ IF loss.raised
           THEN /\ ops' = BatchOps(rcall.mode, w, loss.prior_evaluated, FALSE)
                /\ rpc' = "RAISED"
                /\ rerror' = "TypeError"
                /\ UNCHANGED <<batch_losses, corr_losses, att_losses,
                               num_samples_seen, all_outputs, all_input_grads>>
           ELSE /\ ops' = BatchOps(rcall.mode, w, loss.prior_evaluated, TRUE)
                /\ batch_losses' = Append(batch_losses, loss.final_loss)
                /\ corr_losses' = Append(corr_losses, loss.corr_loss)
                /\ att_losses' = Append(att_losses, loss.att_loss)
                /\ IF ~rcall.return_data
                   THEN /\ UNCHANGED <<rpc, rerror, num_samples_seen,
                                       all_outputs, all_input_grads>>
                   ELSE IF ~SliceFits(all_outputs, start, end, n)
                   THEN /\ rpc' = "RAISED"
                        /\ rerror' = "ValueError"
                        /\ UNCHANGED <<num_samples_seen, all_outputs,
                                       all_input_grads>>
                   ELSE IF StoresInputGrads(w) /\ grads_np = "unbound"
                   THEN /\ rpc' = "RAISED"
                        /\ rerror' = "NameError"
                        /\ all_outputs' = SliceAssign(all_outputs, start, end, tag)
                        /\ UNCHANGED <<num_samples_seen, all_input_grads>>
                   ELSE /\ all_outputs' = SliceAssign(all_outputs, start, end, tag)
                        /\ all_input_grads' =
                              IF StoresInputGrads(w)
                              THEN SliceAssign(all_input_grads, start, end, tag)
                              ELSE all_input_grads
                        /\ num_samples_seen' = num_samples_seen + n
                        /\ UNCHANGED <<rpc, rerror>>

ProcessBatch ==
    /\ rpc = "BATCHES"
    /\ Len(batch_sizes) < rcall.num_batches
    /\ \E n \in (IF rcall.return_data
                 THEN BatchSizes(rcall.batch_size, rcall.revcomp) ELSE {0}),
          att \in (IF ComputesInputGrads(rcall.c.att_prior_loss_weight)
                   THEN 0..MaxAttLoss ELSE {0}) :
          Batch(n, CorrLossOfBatch(Len(batch_sizes) + 1), att)
    /\ UNCHANGED <<dvars, lvars, rcall, rret>>

\* The array returned as allocated.
NoTruncate(a, n) == a

\* a[:n]
Truncate(a, n) == SubSeq(a, 1, Min(n, Len(a)))

\* The loader is exhausted: the arrays are cut to num_samples_seen and
\* returned with the lists of losses.
FinishEpoch ==
    /\ rpc = "BATCHES"
    /\ Len(batch_sizes) = rcall.num_batches
    /\ rpc' = "RETURNED"
    /\ rret' = IF rcall.return_data
               THEN [called |-> TRUE,
                     batch_losses |-> batch_losses,
                     corr_losses |-> corr_losses,
                     att_losses |-> att_losses,
                     all_outputs |-> Truncate(all_outputs, num_samples_seen),
                     all_input_grads |-> Truncate(all_input_grads, num_samples_seen)]
               ELSE [called |-> TRUE,
                     batch_losses |-> batch_losses,
                     corr_losses |-> corr_losses,
                     att_losses |-> att_losses]
    /\ UNCHANGED <<dvars, lvars, rcall, batch_sizes, ops, input_grads_np, batch_losses,
                   corr_losses, att_losses, num_samples_seen, all_outputs,
                   all_input_grads, rerror>>

RunEpoch ==
    \/ RunEpochStart
    \/ ProcessBatch
    \/ FinishEpoch

EpochNext == RunEpoch

SpecEpoch == EpochInit /\ [][EpochNext]_vars

\* ------------------------------------------------- properties: train_model
\* The k most recent logged validation losses, newest first.
NewestFirst(log, k) == [i \in 1..k |-> log[Len(log) - i + 1]]

\* Every logged epoch has gone through the early-stop check.
AllChecked ==
    \/ pc = "LOOP"
    \/ pc \in {"FINAL_METRICS", "DONE"} /\ exit_via \in {"early_stop", "exhausted"}

SupportedControls == {"None", "matched", "shared"}

\* C1: with early stopping, after n epochs have been checked the history
\* holds exactly the min(n, early_stop_hist_len) most recent validation
\* losses, newest first, and is never longer than early_stop_hist_len.
C1_WindowHoldsRecentHistLen ==
    (cfg.early_stopping /\ AllChecked) =>
        /\ Len(val_epoch_loss_hist) <= cfg.early_stop_hist_len
        /\ val_epoch_loss_hist =
             NewestFirst(val_log, Min(Len(val_log), cfg.early_stop_hist_len))

\* C2: at a check where the early_stop_hist_len most recent validation
\* losses are available and a decision is taken, the driver stops if the
\* largest successive improvement (older minus next-newer) over that window
\* is below early_stop_min_delta, and continues if some successive
\* improvement in it is at least early_stop_min_delta.
C2_DecisionOverHistLenWindow ==
    [][(/\ pc = "EARLY_STOP_CHECK"
        /\ cfg.early_stopping
        /\ cfg.early_stop_hist_len >= 2
        /\ Len(val_log) >= cfg.early_stop_hist_len
        /\ pc' # "RAISED") =>
          LET w == NewestFirst(val_log, cfg.early_stop_hist_len)
              imp == NpDiff(w)
              delta == Num(cfg.early_stop_min_delta)
          IN  /\ FLess(NpMax(imp), delta) => pc' = "FINAL_METRICS"
              /\ (\E i \in 1..Len(imp) : ~imp[i].nan /\ ~FLess(imp[i], delta))
                    => pc' = "LOOP"]_vars

\* C3: for every early_stop_hist_len >= 1 the early-stop check never raises,
\* and no early stop is taken while fewer than early_stop_hist_len
\* validation losses have been observed.
C3_CheckNeverRaises ==
    /\ error # "ValueError"
    /\ exit_via = "early_stop" => Len(val_log) >= cfg.early_stop_hist_len

\* C4: the epoch whose training and validation losses are both NaN ends the
\* loop, with early stopping on or off, and no later train or eval step
\* runs; with at most one of them NaN the loop is not ended by this rule.
C4_NaNExit ==
    [][/\ pc = "NAN_CHECK" =>
            ((pc' = "FINAL_METRICS" /\ exit_via' = "nan")
                <=> (IsNaN(train_epoch_loss) /\ IsNaN(val_epoch_loss)))
       /\ pc = "NAN_CHECK" /\ ~(IsNaN(train_epoch_loss) /\ IsNaN(val_epoch_loss))
            => pc' = "EARLY_STOP_CHECK"
       /\ exit_via = "nan" =>
            /\ pc' \in {"FINAL_METRICS", "DONE"}
            /\ exit_via' = "nan"
            /\ val_log' = val_log
            /\ epoch' = epoch]_vars

C4_Witness ==
    /\ pc = "DONE"
    /\ exit_via = "nan"
    /\ cfg.early_stopping
    /\ epoch + 1 < cfg.num_epochs

\* C5: every epoch whose train and eval steps ran is saved exactly once,
\* under its 1-based number, before the NaN exit or early-stop decision of
\* that epoch; after k epochs the saves are exactly 1..k, in order.
C5_CheckpointEveryEpoch ==
    /\ \A i \in 1..Len(saved) : saved[i] = i
    /\ Len(saved) = IF pc = "CHECKPOINT" THEN Len(val_log) - 1 ELSE Len(val_log)
    /\ pc \in {"NAN_CHECK", "EARLY_STOP_CHECK"} =>
          Len(saved) = epoch + 1 /\ saved[Len(saved)] = epoch + 1
    /\ (exit_via # "none" \/ error = "ValueError") => Len(saved) = epoch + 1

C5_Witness ==
    /\ pc = "DONE"
    /\ exit_via = "early_stop"
    /\ saved = <<1, 2, 3>>

\* C6: every run (with a supported controls value) ends in DONE, with the
\* final metrics computed exactly once after the loop.
C6_EveryRunReachesDone ==
    cfg.controls \in SupportedControls =>
        \/ ENABLED Next
        \/ pc = "DONE" /\ metrics_runs = 1

\* C10: create_model instantiates the without-controls, matched-controls
\* and shared-controls variant for controls None, "matched" and "shared",
\* and for any other value no variant is bound, no model is constructed and
\* the call ends in an error.
C10_CreateModelSelection ==
    pc # "RUNNING" =>
        /\ cfg.controls = "None" =>
              model = "ProfilePredictorWithoutControls" /\ error # "UnboundLocalError"
        /\ cfg.controls = "matched" =>
              model = "ProfilePredictorWithMatchedControls" /\ error # "UnboundLocalError"
        /\ cfg.controls = "shared" =>
              model = "ProfilePredictorWithSharedControls" /\ error # "UnboundLocalError"
        /\ cfg.controls \notin SupportedControls =>
              /\ predictor_class = Unbound
              /\ model = "none"
              /\ pc = "RAISED"
              /\ error = "UnboundLocalError"

C10_Witness ==
    /\ pc = "RAISED"
    /\ error = "UnboundLocalError"
    /\ cfg.controls = "other"

\* -------------------------------------------------- properties: model_loss
\* C7: with a zero attribution-prior weight model_loss returns a prior-loss
\* component of exactly zero and a total loss equal to the correctness
\* loss, for every input, epoch, annealing type and att_prior_loss_only,
\* without evaluating the prior loss (input_grads and status may be None).
C7_ZeroWeight ==
    (lret # NotCalled /\ larg.c.att_prior_loss_weight = 0) =>
        /\ ~lret.r.raised
        /\ ~lret.r.prior_evaluated
        /\ lret.r.att_loss = 0
        /\ lret.r.corr_loss = larg.corr * Scale
        /\ lret.r.final_loss = lret.r.corr_loss

C7_Witness ==
    /\ lret # NotCalled
    /\ larg.c.att_prior_loss_weight = 0
    /\ larg.c.anneal_type = "inflate"
    /\ larg.c.att_prior_loss_only
    /\ larg.epoch_num > 0
    /\ larg.input_grads = "None"
    /\ larg.status = "None"
    /\ larg.corr > 0
    /\ lret.r.final_loss = larg.corr * Scale

\* C8: at epoch 0 the weight model_loss applies is the base weight for
\* constant (None) annealing, 0 for "inflate" and the base weight for
\* "deflate"; so with "inflate" at epoch 0 and att_prior_loss_only false
\* the total loss equals the correctness loss.
C8_WeightAtEpochZero ==
    (/\ lret # NotCalled
     /\ larg.epoch_num = 0
     /\ ~lret.r.raised
     /\ lret.r.prior_evaluated) =>
        /\ larg.c.anneal_type = "None" =>
              lret.r.weight = larg.c.att_prior_loss_weight * Scale
        /\ larg.c.anneal_type = "inflate" => lret.r.weight = 0
        /\ larg.c.anneal_type = "deflate" =>
              lret.r.weight = larg.c.att_prior_loss_weight * Scale
        /\ (larg.c.anneal_type = "inflate" /\ ~larg.c.att_prior_loss_only) =>
              lret.r.final_loss = lret.r.corr_loss

C8_Witness ==
    /\ lret # NotCalled
    /\ larg.epoch_num = 0
    /\ larg.c.anneal_type = "inflate"
    /\ larg.c.att_prior_loss_weight > 0
    /\ ~larg.c.att_prior_loss_only
    /\ larg.att > 0
    /\ ~lret.r.raised
    /\ lret.r.weight = 0
    /\ lret.r.final_loss = larg.corr * Scale

\* --------------------------------------------------- properties: run_epoch
RECURSIVE SumSeq(_)
SumSeq(q) == IF Len(q) = 0 THEN 0 ELSE q[Len(q)] + SumSeq(DropLast(q))

\* The most examples a batch of batch_size coordinates holds.
BatchLimit == rcall.batch_size * (IF rcall.revcomp THEN 2 ELSE 1)

NoBatchOverfull == \A i \in 1..Len(batch_sizes) : batch_sizes[i] <= BatchLimit

\* C9: with return_data, after any sequence of batches num_samples_seen is
\* the sum of the sizes of the batches processed; when no batch holds more
\* than batch_size (* 2 under revcomp) examples it never exceeds the
\* preallocated capacity, and every returned array has exactly
\* num_samples_seen rows, not the preallocated capacity.
C9_Truncation ==
    (rcall # NotCalled /\ rcall.return_data /\ rpc \in {"BATCHES", "RETURNED"}) =>
        /\ num_samples_seen = SumSeq(batch_sizes)
        /\ Len(all_outputs) = NumSamplesExp(rcall.num_batches, rcall.batch_size,
                                            rcall.revcomp)
        /\ NoBatchOverfull =>
              /\ num_samples_seen <= Len(all_outputs)
              /\ rpc = "RETURNED" =>
                    /\ Len(rret.all_outputs) = num_samples_seen
                    /\ Len(rret.all_input_grads) = num_samples_seen
                    /\ \A i \in 1..num_samples_seen :
                          rret.all_outputs[i] # Garbage

C9_Witness ==
    /\ rpc = "RETURNED"
    /\ rcall.return_data
    /\ rcall.batch_size = 2
    /\ rcall.revcomp
    /\ batch_sizes = <<4, 2>>
    /\ num_samples_seen = 6
    /\ Len(all_outputs) = 8
    /\ Len(rret.all_outputs) = 6

\* The positions of the call `name` in the latest batch.
Pos(name) == {i \in 1..Len(ops) : ops[i] = name}
ZeroGradPos == Pos("optimizer.zero_grad") \cup Pos("model.zero_grad")

\* A training batch with a positive attribution-prior weight has run.
TrainedWithPrior ==
    /\ rcall # NotCalled
    /\ rcall.mode = "train"
    /\ rcall.c.att_prior_loss_weight > 0
    /\ Len(ops) > 0

\* C11 as stated: in training with a positive attribution-prior weight the
\* input-gradient pass precedes loss.backward() and optimizer.step(), and a
\* zero_grad occurs after the input-gradient computation and before
\* loss.backward() of the same batch.
C11_RezeroBetweenPasses ==
    TrainedWithPrior =>
        /\ \A g \in Pos("autograd.grad") :
              \A b \in Pos("loss.backward") \cup Pos("optimizer.step") : g < b
        /\ \E z \in ZeroGradPos :
              /\ \E g \in Pos("autograd.grad") : g < z
              /\ \E b \in Pos("loss.backward") : z < b

\* C11, amended: in training with a positive attribution-prior weight each
\* batch computes the input gradients once, before its one loss.backward()
\* and optimizer.step(); its only zero_grad is the optimizer.zero_grad()
\* that starts the batch, before the input-gradient computation, and none
\* occurs between that computation and loss.backward().
C11_ZeroGradOnlyBeforeInputGrads ==
    TrainedWithPrior =>
        /\ Cardinality(Pos("autograd.grad")) = 1
        /\ Cardinality(Pos("loss.backward")) = 1
        /\ Cardinality(Pos("optimizer.step")) = 1
        /\ \A g \in Pos("autograd.grad") :
              /\ \A b \in Pos("loss.backward") :
                    /\ g < b
                    /\ \A t \in Pos("optimizer.step") : b < t
                    /\ ~\E z \in ZeroGradPos : g < z /\ z < b
              /\ ZeroGradPos = {1}
              /\ ops[1] = "optimizer.zero_grad"
              /\ 1 < g

C11_Witness ==
    /\ TrainedWithPrior
    /\ rpc = "RETURNED"
    /\ Len(batch_sizes) = 2
    /\ ops = <<"optimizer.zero_grad", "forward", "autograd.grad", "model_loss",
               "fourier_att_prior_loss", "loss.backward", "optimizer.step">>

\* The call train_model makes for the test metrics:
\* run_epoch(data_loader, "eval", model, 0, return_data=True).
FinalTestPass ==
    /\ rcall # NotCalled
    /\ rcall.mode = "eval"
    /\ rcall.optimizer = "None"
    /\ rcall.epoch_num = 0
    /\ rcall.return_data

\* C12: the final test-metrics pass does not use the attribution prior
\* loss: for every configuration each reported test batch loss equals the
\* correctness loss of that batch.
C12_TestLossIsCorrLoss ==
    FinalTestPass =>
        \A i \in 1..Len(batch_losses) : batch_losses[i] = corr_losses[i]

\* C13: for every value of att_prior_loss_weight (zero, positive,
\* fractional, negative) run_epoch computes the input gradients exactly
\* when model_loss evaluates the attribution prior loss and exactly when
\* the return_data path stores them: the prior loss is never evaluated on
\* None, input gradients are never stored without having been computed,
\* and with weight zero the input-gradient computation is skipped.
C13_WeightGuardsAgree ==
    (rcall # NotCalled /\ Len(ops) > 0) =>
        /\ (Pos("fourier_att_prior_loss") # {}) <=> (Pos("autograd.grad") # {})
        /\ StoresInputGrads(rcall.c.att_prior_loss_weight)
              <=> (Pos("autograd.grad") # {})
        /\ rerror \notin {"TypeError", "NameError"}
        /\ rcall.c.att_prior_loss_weight = 0 => Pos("autograd.grad") = {}

====
